---- MODULE Spec2Model ----
(***************************************************************************)
(* State-machine model of WaveformOverview                                 *)
(* (src/main/views/waveform.overview.js): the overview waveform view, its  *)
(* window_resize debounce, the pointer and player handlers, the highlight  *)
(* rectangle, the redraw cascade and destroy.                              *)
(*                                                                         *)
(* Times are exact rationals [n |-> numerator, d |-> denominator] in       *)
(* seconds; d = 0 stands for a non-finite JavaScript number (NaN).         *)
(* null and undefined are modelled by the record NULL, and a null timer    *)
(* handle by 0 (timer ids are positive, so "if (id)" is "id # 0").         *)
(***************************************************************************)
EXTENDS Integers, Sequences, FiniteSets

VARIABLES
  clientWidth,            \* container.clientWidth, owned by the browser
  playerTime,             \* peaks.player.getCurrentTime()
  width,                  \* self.width
  height,                 \* self.height
  data,                   \* self.data, the active dataset
  originalWaveformData,   \* self.originalWaveformData
  resizeTimeoutId,        \* self._resizeTimeoutId
  timers,                 \* ids of the setTimeout callbacks pending on the event loop
  stage,                  \* self.stage: NULL or [width, layers (bottom to top)]
  highlightRect,          \* self._highlightRect: NULL or [x, y, width, height]
  highlightRectTimes,     \* self._highlightRectStartTime / _highlightRectEndTime
  event,                  \* the notification or call handled by the last step
  calls,                  \* collaborator calls made by the last step, in order
  error,                  \* exception raised by the last step, "none" if none
  burst                   \* history: the current burst of nonzero-width resizes

vars == <<clientWidth, playerTime, width, height, data, originalWaveformData,
          resizeTimeoutId, timers, stage, highlightRect, highlightRectTimes,
          event, calls, error, burst>>

viewVars == <<width, height, data, originalWaveformData, resizeTimeoutId,
              timers, stage, highlightRect, highlightRectTimes>>

-----------------------------------------------------------------------------
(* Bounds of the model *)

MaxWidth == 2
SampleRate == 4
OrigScale == 3
MaxHeight == 40
OptionsHeight == 30
MaxTime == 2

(* Program constants *)

HighlightInset == 11

OrigLength == 2 * MaxWidth + 1

NULL == [null |-> TRUE]

NaN == [n |-> 0, d |-> 0]

Widths == 0 .. MaxWidth

Times == {[n |-> k, d |-> 1] : k \in 0 .. MaxTime}

PointerXs == -1 .. (MaxWidth + 1)

-----------------------------------------------------------------------------
(* The external dataset (waveform-data): resample(width) derives a dataset *)
(* whose scale (samples per pixel) makes the whole duration fit the width. *)

DurationSamples(d) == d.length * d.scale

resample(d, w) ==
  LET spp == DurationSamples(d) \div w
  IN  [sample_rate |-> d.sample_rate,
       scale       |-> spp,
       length      |-> (DurationSamples(d) + spp - 1) \div spp]

\* resample(0): the library either rejects the width or returns a dataset
\* with a non-finite scale, represented by scale = 0.
Degenerate(d) == [sample_rate |-> d.sample_rate, scale |-> 0, length |-> 0]

clamp(v, lo, hi) == IF v < lo THEN lo ELSE IF v > hi THEN hi ELSE v

-----------------------------------------------------------------------------
(* Coordinate mapping *)

\* A ratio cached from the dataset given at construction.
timeToPixelsCachedScale(d, time) ==
  (time.n * d.sample_rate) \div (time.d * OrigScale)

timeToPixels(d, time) ==
  IF d.scale = 0
    THEN 0
    ELSE (time.n * d.sample_rate) \div (time.d * d.scale)

pixelsToTimeInverted(d, pixels) ==
  IF d.scale = 0
    THEN NaN
    ELSE [n |-> pixels * d.sample_rate, d |-> d.scale]

pixelsToTime(d, pixels) ==
  IF d.scale = 0
    THEN NaN
    ELSE [n |-> pixels * d.scale, d |-> d.sample_rate]

getFrameOffset == 0

-----------------------------------------------------------------------------
(* Collaborator calls, as recorded in calls *)

Draw(layer) == [op |-> "draw", layer |-> layer]

UpdatePlayheadTime(t) == [op |-> "updatePlayheadTime", time |-> t]

StopPlayhead(t) == [op |-> "stop", time |-> t]

Seek(t) == [op |-> "seek", time |-> t]

Resample(w) == [op |-> "resample", width |-> w]

UpdatePoints(s, e) == [op |-> "updatePoints", start |-> s, end |-> e]

UpdateSegments(s, e) == [op |-> "updateSegments", start |-> s, end |-> e]

AddHighlightRect == [op |-> "add", layer |-> "highlight"]

-----------------------------------------------------------------------------
(* Construction *)

\* stage.add(layer): Konva puts the added layer on top.
StageAdd(layers, layer) == Append(layers, layer)

ConstructLayersHighlightFirst ==
  LET l1 == StageAdd(<<>>, "waveform")
      l2 == StageAdd(l1, "highlight")
      l3 == StageAdd(l2, "points")
      l4 == StageAdd(l3, "segments")
  IN  StageAdd(l4, "playhead")

\* The calls of the constructor that add layers to the stage, in order.
ConstructLayers ==
  LET l1 == StageAdd(<<>>, "waveform")      \* createWaveform
      l2 == StageAdd(l1, "segments")        \* _segmentsLayer.addToStage
      l3 == StageAdd(l2, "points")          \* _pointsLayer.addToStage
      l4 == StageAdd(l3, "highlight")       \* _createHighlightLayer
  IN  StageAdd(l4, "playhead")              \* _playheadLayer.addToStage

Original == [sample_rate |-> SampleRate, scale |-> OrigScale, length |-> OrigLength]

\* new WaveformOverview(waveformData, container, peaks)
Construct(waveformData) ==
  /\ clientWidth \in Widths
  /\ playerTime \in Times
  /\ originalWaveformData = waveformData
  /\ width = clientWidth
  /\ \E clientHeight \in {0, MaxHeight} :
       height = IF clientHeight # 0 THEN clientHeight ELSE OptionsHeight
  /\ data = IF width # 0 THEN resample(waveformData, width) ELSE waveformData
  /\ resizeTimeoutId = 0
  /\ timers = {}
  /\ stage = [width |-> width, layers |-> ConstructLayers]
  /\ highlightRect = NULL
  /\ highlightRectTimes = NULL
  /\ event = [name |-> "construct"]
  /\ calls = IF width # 0 THEN <<Resample(width)>> ELSE <<>>
  /\ error = "none"
  /\ burst = [len |-> 0, width |-> 0, open |-> FALSE, done |-> 0, used |-> 0]

Init == Construct(Original)

-----------------------------------------------------------------------------
(* Timers of the host event loop *)

\* setTimeout returns an id that no pending timer uses.
FreshId(pending) ==
  CHOOSE i \in 1 .. (Cardinality(pending) + 1) :
    i \notin pending /\ \A j \in 1 .. (i - 1) : j \in pending

clearTimeout(pending, id) == pending \ {id}

-----------------------------------------------------------------------------
(* Playback notifications *)

player_play(time) ==
  /\ event' = [name |-> "player_play"]
  /\ playerTime' = time
  /\ calls' = <<UpdatePlayheadTime(time)>>
  /\ error' = "none"
  /\ UNCHANGED <<clientWidth, width, height, data, originalWaveformData,
                 resizeTimeoutId, timers, stage, highlightRect,
                 highlightRectTimes, burst>>

player_pause(time) ==
  /\ event' = [name |-> "player_pause"]
  /\ playerTime' = time
  /\ calls' = <<StopPlayhead(time)>>
  /\ error' = "none"
  /\ UNCHANGED <<clientWidth, width, height, data, originalWaveformData,
                 resizeTimeoutId, timers, stage, highlightRect,
                 highlightRectTimes, burst>>

player_time_update(time) ==
  /\ event' = [name |-> "player_time_update"]
  /\ playerTime' = time
  /\ calls' = <<UpdatePlayheadTime(time)>>
  /\ error' = "none"
  /\ UNCHANGED <<clientWidth, width, height, data, originalWaveformData,
                 resizeTimeoutId, timers, stage, highlightRect,
                 highlightRectTimes, burst>>

-----------------------------------------------------------------------------
(* Highlight rectangle *)

\* new Konva.Rect({...}): x is not given and defaults to 0.
createHighlightRect(d, h, startTime, endTime) ==
  [x      |-> 0,
   y      |-> HighlightInset,
   width  |-> timeToPixels(d, endTime) - timeToPixels(d, startTime),
   height |-> h - (HighlightInset * 2)]

updateHighlightRectResetsY(rect, d, startTime, endTime) ==
  [rect EXCEPT !.x     = timeToPixels(d, startTime),
               !.y     = 0,
               !.width = timeToPixels(d, endTime) - timeToPixels(d, startTime)]

\* setAttrs({x, width}) on the existing rectangle.
updateHighlightRect(rect, d, startTime, endTime) ==
  [rect EXCEPT !.x     = timeToPixels(d, startTime),
               !.width = timeToPixels(d, endTime) - timeToPixels(d, startTime)]

zoomview_displaying(startTime, endTime) ==
  LET created == IF highlightRect = NULL
                   THEN createHighlightRect(data, height, startTime, endTime)
                   ELSE highlightRect
  IN  /\ event' = [name |-> "zoomview.displaying"]
      /\ highlightRectTimes' = [startTime |-> startTime, endTime |-> endTime]
      /\ highlightRect' = updateHighlightRect(created, data, startTime, endTime)
      /\ calls' = (IF highlightRect = NULL THEN <<AddHighlightRect>> ELSE <<>>)
                     \o <<Draw("highlight")>>
      /\ error' = "none"
      /\ UNCHANGED <<clientWidth, playerTime, width, height, data,
                     originalWaveformData, resizeTimeoutId, timers, stage, burst>>

-----------------------------------------------------------------------------
(* Pointer input (MouseDragHandler callbacks) *)

\* The drag handler listens on the stage, so it reports nothing once the
\* stage has been destroyed.
MouseSeekTimeUnclamped(mousePosX) == pixelsToTime(data, mousePosX)

MouseSeekTime(mousePosX) == pixelsToTime(data, clamp(mousePosX, 0, width))

MouseCalls(mousePosX) ==
  <<UpdatePlayheadTime(MouseSeekTime(mousePosX)), Seek(MouseSeekTime(mousePosX))>>

onMouseDown(mousePosX) ==
  /\ stage # NULL
  /\ event' = [name |-> "mousedown"]
  /\ calls' = MouseCalls(mousePosX)
  /\ error' = "none"
  /\ UNCHANGED <<clientWidth, playerTime, width, height, data,
                 originalWaveformData, resizeTimeoutId, timers, stage,
                 highlightRect, highlightRectTimes, burst>>

onMouseMove(mousePosX) ==
  /\ stage # NULL
  /\ event' = [name |-> "mousemove"]
  /\ calls' = MouseCalls(mousePosX)
  /\ error' = "none"
  /\ UNCHANGED <<clientWidth, playerTime, width, height, data,
                 originalWaveformData, resizeTimeoutId, timers, stage,
                 highlightRect, highlightRectTimes, burst>>

-----------------------------------------------------------------------------
(* Redraw cascade *)

ZeroTime == [n |-> 0, d |-> 1]

updateWaveformCallsSegmentsFirst(d, w, rect, currentTime) ==
  <<Draw("waveform"), UpdatePlayheadTime(currentTime)>>
    \o (IF rect # NULL THEN <<Draw("highlight")>> ELSE <<>>)
    \o <<UpdateSegments(ZeroTime, pixelsToTime(d, w)),
         UpdatePoints(ZeroTime, pixelsToTime(d, w))>>

updateWaveformCallsHighlightAlways(d, w, rect, currentTime) ==
  <<Draw("waveform"), UpdatePlayheadTime(currentTime), Draw("highlight"),
    UpdatePoints(ZeroTime, pixelsToTime(d, w)),
    UpdateSegments(ZeroTime, pixelsToTime(d, w))>>

\* _updateWaveform, run with the dataset d and the width w already assigned.
updateWaveformCalls(d, w, rect, currentTime) ==
  <<Draw("waveform"), UpdatePlayheadTime(currentTime)>>
    \o (IF rect # NULL THEN <<Draw("highlight")>> ELSE <<>>)
    \o <<UpdatePoints(ZeroTime, pixelsToTime(d, w)),
         UpdateSegments(ZeroTime, pixelsToTime(d, w))>>

updateWaveformRectStale(d, rect, times) == rect

\* if (this._highlightRect) { this._updateHighlightRect(...) }
updateWaveformRect(d, rect, times) ==
  IF rect # NULL
    THEN updateHighlightRect(rect, d, times.startTime, times.endTime)
    ELSE rect

-----------------------------------------------------------------------------
(* Resize debounce *)

\* The browser lays the container out again; no notification is involved.
ContainerLayout(w) ==
  /\ w # clientWidth
  /\ clientWidth' = w
  /\ event' = [name |-> "layout"]
  /\ calls' = <<>>
  /\ error' = "none"
  /\ UNCHANGED <<playerTime, width, height, data, originalWaveformData,
                 resizeTimeoutId, timers, stage, highlightRect,
                 highlightRectTimes, burst>>

\* A notification handled while the callback armed by the previous one is
\* still pending arrived within the debounce delay of it.
BurstAfterResize ==
  [len   |-> IF burst.open /\ burst.done = 0 /\ resizeTimeoutId \in timers
               THEN (IF burst.len >= 2 THEN 2 ELSE burst.len + 1)
               ELSE 1,
   width |-> clientWidth,
   open  |-> TRUE,
   done  |-> 0,
   used  |-> 0]

\* "Avoid resampling waveform data to zero width"
ResizeAcceptedAlways == TRUE

ResizeAccepted == clientWidth # 0

ResizeClearedNone == timers

\* if (self._resizeTimeoutId) { clearTimeout(self._resizeTimeoutId); ... }
ResizeCleared ==
  IF resizeTimeoutId # 0
    THEN clearTimeout(timers, resizeTimeoutId)
    ELSE timers

window_resize ==
  LET cleared == ResizeCleared
  IN  /\ event' = [name |-> "window_resize"]
      /\ calls' = <<>>
      /\ IF ResizeAccepted
           THEN /\ width' = clientWidth
                /\ IF stage # NULL
                     THEN /\ stage' = [stage EXCEPT !.width = clientWidth]
                          /\ resizeTimeoutId' = FreshId(cleared)
                          /\ timers' = cleared \cup {FreshId(cleared)}
                          /\ error' = "none"
                          /\ burst' = BurstAfterResize
                     ELSE \* self.stage is null: setWidth raises
                          /\ stage' = stage
                          /\ resizeTimeoutId' = 0
                          /\ timers' = cleared
                          /\ error' = "TypeError"
                          /\ burst' = burst
           ELSE /\ width' = width
                /\ stage' = stage
                /\ resizeTimeoutId' = 0
                /\ timers' = cleared
                /\ error' = "none"
                /\ burst' = [burst EXCEPT !.open = FALSE]
      /\ UNCHANGED <<clientWidth, playerTime, height, data,
                     originalWaveformData, highlightRect, highlightRectTimes>>

ResampleSourceActive == data

\* The dataset the callback resamples: self.originalWaveformData.
ResampleSource == originalWaveformData

\* The callback given to setTimeout, run by the event loop for timer id.
\* returned: whether resample(0) returns a dataset instead of raising.
resize_timeout(id, returned) ==
  LET resampled == IF clientWidth # 0
                     THEN resample(ResampleSource, clientWidth)
                     ELSE Degenerate(ResampleSource)
      completes == (clientWidth # 0 \/ returned) /\ stage # NULL
  IN  /\ id \in timers
      /\ timers' = timers \ {id}
      /\ event' = [name |-> "resize_timeout"]
      /\ width' = clientWidth
      /\ IF clientWidth # 0 \/ returned
           THEN data' = resampled
           ELSE data' = data
      /\ IF completes
           THEN /\ stage' = [stage EXCEPT !.width = clientWidth]
                /\ highlightRect' =
                     updateWaveformRect(resampled, highlightRect, highlightRectTimes)
                /\ calls' = <<Resample(clientWidth)>>
                     \o updateWaveformCalls(resampled, clientWidth,
                                            highlightRect, playerTime)
                /\ error' = "none"
                /\ burst' = [burst EXCEPT !.done = IF @ >= 1 THEN 2 ELSE 1,
                                          !.used = clientWidth,
                                          !.open = FALSE]
           ELSE /\ stage' = stage
                /\ highlightRect' = highlightRect
                /\ calls' = <<Resample(clientWidth)>>
                /\ error' = IF clientWidth # 0 \/ returned
                              THEN "TypeError" ELSE "RangeError"
                /\ burst' = [burst EXCEPT !.open = FALSE]
      /\ UNCHANGED <<clientWidth, playerTime, height, originalWaveformData,
                     resizeTimeoutId, highlightRectTimes>>

-----------------------------------------------------------------------------
(* Teardown *)

DestroyTimersKept == timers

\* if (this._resizeTimeoutId) { clearTimeout(this._resizeTimeoutId); ... }
DestroyTimers ==
  IF resizeTimeoutId # 0
    THEN clearTimeout(timers, resizeTimeoutId)
    ELSE timers

destroy ==
  /\ event' = [name |-> "destroy"]
  /\ timers' = DestroyTimers
  /\ resizeTimeoutId' = 0
  /\ IF stage # NULL
       THEN /\ stage' = NULL
            /\ calls' = <<[op |-> "destroyStage"]>>
       ELSE /\ stage' = stage
            /\ calls' = <<>>
  /\ error' = "none"
  /\ burst' = [len |-> 0, width |-> 0, open |-> FALSE, done |-> 0, used |-> 0]
  /\ UNCHANGED <<clientWidth, playerTime, width, height, data,
                 originalWaveformData, highlightRect, highlightRectTimes>>

-----------------------------------------------------------------------------

Next ==
  \/ \E t \in Times : player_play(t)
  \/ \E t \in Times : player_pause(t)
  \/ \E t \in Times : player_time_update(t)
  \/ \E s \in Times, e \in Times : s.n <= e.n /\ zoomview_displaying(s, e)
  \/ \E x \in PointerXs : onMouseDown(x)
  \/ \E x \in PointerXs : onMouseMove(x)
  \/ \E w \in Widths : ContainerLayout(w)
  \/ window_resize
  \/ \E id \in timers, returned \in BOOLEAN : resize_timeout(id, returned)
  \/ destroy

Spec == Init /\ [][Next]_vars

-----------------------------------------------------------------------------
(* The coordinate mapping on its own: views built on datasets of several    *)
(* resolutions, and the handlers and callers that convert coordinates.      *)

MapRates == (1 .. SampleRate) \cup {44100}

MapScales == (1 .. OrigScale) \cup {512}

MapPixels == 0 .. OrigLength

Datasets ==
  {[sample_rate |-> sr, scale |-> sc, length |-> OrigLength] :
     sr \in MapRates, sc \in MapScales}

\* A sibling layer converts a pixel index to a time and back through the
\* view's pixelsToTime and timeToPixels.
roundTrip(pixels) ==
  /\ event' = [name |-> "roundTrip"]
  /\ calls' = <<[op |-> "timeToPixels", pixels |-> pixels,
                 result |-> timeToPixels(data, pixelsToTime(data, pixels))]>>
  /\ error' = "none"
  /\ UNCHANGED <<clientWidth, playerTime, width, height, data,
                 originalWaveformData, resizeTimeoutId, timers, stage,
                 highlightRect, highlightRectTimes, burst>>

MapperInit == \E waveformData \in Datasets : Construct(waveformData)

MapperNext ==
  \/ \E s \in Times, e \in Times : s.n <= e.n /\ zoomview_displaying(s, e)
  \/ \E x \in PointerXs : onMouseDown(x)
  \/ \E p \in MapPixels : roundTrip(p)

MapperSpec == MapperInit /\ [][MapperNext]_vars

-----------------------------------------------------------------------------
(* Properties *)

NextCallOps == {calls'[i].op : i \in 1 .. Len(calls')}

\* The track duration D, as a time.
Duration == [n |-> DurationSamples(Original), d |-> Original.sample_rate]

InRange(t) == t.d > 0 /\ t.n >= 0 /\ t.n * Duration.d <= Duration.n * t.d

\* C1: a burst of two or more nonzero-width window_resize notifications,
\* each handled while the timer of the previous one is pending, gets exactly
\* one resample, after its last notification and with the width that last
\* notification reported: until that resample the timer stays armed, and
\* once it has happened it is the only one and used the reported width.
C1_DebounceLastResizeWins ==
  burst.len >= 2 =>
    /\ burst.done = 0 => resizeTimeoutId \in timers
    /\ burst.done >= 1 => burst.done = 1 /\ burst.used = burst.width

\* C2: a window_resize notification handled while the container width is 0
\* leaves width and the active dataset unchanged and makes no resample call.
C2_ZeroWidthResizeKeepsWidthAndData ==
  [][(event'.name = "window_resize" /\ clientWidth = 0) =>
       (width' = width /\ data' = data /\ "resample" \notin NextCallOps)]_vars

\* A zero-width notification was handled after a nonzero-width one whose
\* resample has not taken place.
C2_Witness ==
  /\ event.name = "window_resize"
  /\ clientWidth = 0
  /\ width # 0
  /\ burst.len >= 1 /\ burst.done = 0 /\ ~burst.open

\* C3: a window_resize notification handled while the container width is 0
\* changes no state of the view, the debounce timer included.
C3_ZeroWidthResizeIgnored ==
  [][(event'.name = "window_resize" /\ clientWidth = 0) =>
       UNCHANGED viewVars]_vars

\* C4: after construction width is only ever assigned a nonzero value and
\* the original dataset is never resampled to width 0.
C4_WidthNeverZero ==
  [][/\ width' # width => width' # 0
     /\ \A i \in 1 .. Len(calls') : calls'[i] # Resample(0)]_vars

\* C5: once destroy has released the stage, no handler redraws a layer,
\* updates the playhead or seeks the player.
C5_NoEffectsAfterDestroy ==
  [][stage = NULL =>
       NextCallOps \cap {"draw", "updatePlayheadTime", "stop", "seek",
                         "updatePoints", "updateSegments"} = {}]_vars

\* C6: destroy raises no error and leaves no timer pending from any state;
\* destroy on a view already torn down changes no state; after teardown no
\* timer is pending, so a resample scheduled before it never runs.
C6_DestroyIdempotent ==
  /\ [](stage = NULL => timers = {})
  /\ [][event'.name = "destroy" =>
          /\ error' = "none"
          /\ timers' = {}
          /\ stage = NULL => UNCHANGED viewVars]_vars
  /\ [][stage = NULL => "resample" \notin NextCallOps]_vars

\* destroy was called on a view that was already torn down.
C6_Witness ==
  event.name = "destroy" /\ stage = NULL /\ calls = <<>> /\ timers = {}

\* C7: a pointer press or drag-move at raw position x makes exactly one
\* playhead update followed by exactly one seek, both with the time
\* pixelsToTime(clamp(x, 0, width)) of the current width and dataset.
C7_PointerUpdateThenSeek ==
  [][\A x \in PointerXs :
       (onMouseDown(x) \/ onMouseMove(x)) =>
         calls' = <<UpdatePlayheadTime(pixelsToTime(data, clamp(x, 0, width))),
                    Seek(pixelsToTime(data, clamp(x, 0, width)))>>]_vars

\* A pointer event at or beyond the right edge was handled.
C7_Witness ==
  /\ event.name \in {"mousedown", "mousemove"}
  /\ width > 0
  /\ calls = <<UpdatePlayheadTime(pixelsToTime(data, width)),
               Seek(pixelsToTime(data, width))>>

\* C8: every seek request is for a time in [0, D].
C8_SeekInRange ==
  \A i \in 1 .. Len(calls) : calls[i].op = "seek" => InRange(calls[i].time)

\* C9 as stated: bottom to top, the stack is waveform shape, highlight
\* overlay, point markers, segment markers, playhead.
C9_ClaimedLayerOrder ==
  stage # NULL =>
    stage.layers = <<"waveform", "highlight", "points", "segments", "playhead">>

\* C9: bottom to top, the stack is waveform shape, segment markers, point
\* markers, highlight overlay, playhead, in every state before teardown.
C9_LayerOrder ==
  stage # NULL =>
    stage.layers = <<"waveform", "segments", "points", "highlight", "playhead">>

\* The stack after a highlight was created and a resample redrew the view.
C9_Witness ==
  /\ stage # NULL
  /\ event.name = "resize_timeout"
  /\ error = "none"
  /\ highlightRect # NULL
  /\ Len(stage.layers) = 5

\* C10: a completed resample is followed, in the same callback, by exactly
\* one cascade: waveform redraw, playhead set to the player's current time,
\* highlight recomputed and redrawn only if it exists, point markers and then
\* segment markers updated over [0, pixelsToTime(width)) of the new dataset.
C10_RedrawCascade ==
  [][(event'.name = "resize_timeout" /\ error' = "none") =>
       /\ calls' =
            <<Resample(width'), Draw("waveform"), UpdatePlayheadTime(playerTime)>>
              \o (IF highlightRect # NULL THEN <<Draw("highlight")>> ELSE <<>>)
              \o <<UpdatePoints(ZeroTime, pixelsToTime(data', width')),
                   UpdateSegments(ZeroTime, pixelsToTime(data', width'))>>
       /\ highlightRect' =
            IF highlightRect # NULL
              THEN [highlightRect EXCEPT
                      !.x = timeToPixels(data', highlightRectTimes.startTime),
                      !.width = timeToPixels(data', highlightRectTimes.endTime)
                                - timeToPixels(data', highlightRectTimes.startTime)]
              ELSE NULL]_vars

\* A resample completed while a highlight existed.
C10_Witness ==
  /\ event.name = "resize_timeout"
  /\ error = "none"
  /\ highlightRect # NULL
  /\ width # 0
  /\ Len(calls) = 6

\* The layers drawn by the next step.
NextDrawn ==
  {calls'[i].layer : i \in {j \in 1 .. Len(calls') : calls'[j].op = "draw"}}

\* C11: the first zoomview.displaying notification creates the highlight
\* with y = 11 and height = view height - 22; no later step changes y or
\* height, and a zoomview.displaying notification redraws the highlight
\* layer and no other.
C11_HighlightVerticalBoundsFixed ==
  /\ [][(highlightRect = NULL /\ highlightRect' # NULL) =>
          /\ event'.name = "zoomview.displaying"
          /\ highlightRect'.y = 11
          /\ highlightRect'.height = height - 22]_vars
  /\ [][highlightRect # NULL =>
          /\ highlightRect' # NULL
          /\ highlightRect'.y = highlightRect.y
          /\ highlightRect'.height = highlightRect.height]_vars
  /\ [][event'.name = "zoomview.displaying" => NextDrawn = {"highlight"}]_vars

\* A resample recomputed an existing highlight: x and width are those of the
\* new dataset, y and height those of the creation.
C11_Witness ==
  /\ event.name = "resize_timeout"
  /\ error = "none"
  /\ highlightRect # NULL
  /\ highlightRect.x > 0
  /\ highlightRect.y = 11
  /\ highlightRect.height = height - 22

\* C12: no highlight exists before the first zoomview.displaying; while none
\* exists only that notification creates one, no other step draws or adds to
\* the highlight layer, and the redraw cascade runs to its end without an
\* error; once created the highlight is never dropped or created again.
C12_HighlightLifecycle ==
  /\ [](event.name = "construct" => highlightRect = NULL)
  /\ [][(highlightRect = NULL /\ event'.name # "zoomview.displaying") =>
          /\ highlightRect' = NULL
          /\ "highlight" \notin NextDrawn
          /\ AddHighlightRect \notin {calls'[i] : i \in 1 .. Len(calls')}
          /\ "draw" \in NextCallOps => error' = "none"]_vars
  /\ [][highlightRect # NULL =>
          /\ highlightRect' # NULL
          /\ AddHighlightRect \notin {calls'[i] : i \in 1 .. Len(calls')}]_vars

\* A resample redrew the view while no highlight existed.
C12_Witness ==
  /\ event.name = "resize_timeout"
  /\ error = "none"
  /\ highlightRect = NULL
  /\ Len(calls) = 5

\* p is the floor of num / den, stated without division.
IsFloor(p, num, den) == p * den <= num /\ num < (p + 1) * den

\* C13: timeToPixels(time) is floor(time * sample_rate / scale) of the
\* dataset active at the call: 86 for time 1 at sample rate 44100 and scale
\* 512, the floor for every time on every active dataset, and the highlight
\* set by a notification or by a resample is placed with the dataset active
\* after that step.
C13_TimeToPixelsIsFloor ==
  /\ [](timeToPixels([sample_rate |-> 44100, scale |-> 512, length |-> 1],
                     [n |-> 1, d |-> 1]) = 86)
  /\ [](\A t \in Times :
          data.scale > 0 =>
            IsFloor(timeToPixels(data, t),
                    t.n * data.sample_rate, t.d * data.scale))
  /\ [][(highlightRect' # NULL /\ data'.scale > 0
           /\ event'.name \in {"zoomview.displaying", "resize_timeout"}
           /\ error' = "none") =>
          IsFloor(highlightRect'.x,
                  highlightRectTimes'.startTime.n * data'.sample_rate,
                  highlightRectTimes'.startTime.d * data'.scale)]_vars

\* After a resample the highlight sits at a pixel that the floor rounded
\* down, computed with a scale other than the original one.
C13_Witness ==
  /\ event.name = "resize_timeout"
  /\ error = "none"
  /\ highlightRect # NULL
  /\ highlightRect.x >= 1
  /\ data.scale > 0
  /\ data.scale # Original.scale
  /\ highlightRectTimes.startTime.n * data.sample_rate
       > highlightRect.x * highlightRectTimes.startTime.d * data.scale

C15_AtMostOneTimer == Cardinality(timers) <= 1

\* A resize re-armed the timer while the previous callback was pending.
C15_Witness ==
  /\ event.name = "window_resize"
  /\ burst.len >= 2
  /\ Cardinality(timers) = 1

\* C16: the original dataset is never reassigned; the dataset active after
\* construction and after every completed resample is the original one
\* resampled to the width, whatever dataset was active before.
C16_ResampleFromOriginal ==
  /\ [](originalWaveformData = Original)
  /\ [](event.name = "construct" =>
          data = IF width # 0 THEN resample(Original, width) ELSE Original)
  /\ [][("resample" \in NextCallOps /\ error' = "none") =>
          data' = IF width' # 0
                    THEN resample(Original, width')
                    ELSE Degenerate(Original)]_vars
  /\ [][data' # data => "resample" \in NextCallOps]_vars

\* A resample completed on a view whose active dataset, resampled again,
\* would give another dataset than the original does.
C16_Witness ==
  /\ event.name = "resize_timeout"
  /\ error = "none"
  /\ width # 0
  /\ data = resample(Original, width)
  /\ resample(data, width) # data

\* C17: no settled state of a live view has a width that a resize changed
\* and an active dataset still resampled for an older width.
C17_SettledDatasetMatchesWidth ==
  (stage # NULL /\ timers = {} /\ width # 0) =>
    data = resample(Original, width)

\* C18: an existing highlight has x = timeToPixels(startTime) and
\* width = timeToPixels(endTime) - timeToPixels(startTime) on the active
\* dataset.
C18_HighlightMatchesDataset ==
  highlightRect # NULL =>
    /\ highlightRect.x = timeToPixels(data, highlightRectTimes.startTime)
    /\ highlightRect.width =
         timeToPixels(data, highlightRectTimes.endTime)
           - timeToPixels(data, highlightRectTimes.startTime)

\* A resample replaced the dataset under a highlight of nonzero width.
C18_Witness ==
  /\ event.name = "resize_timeout"
  /\ error = "none"
  /\ highlightRect # NULL
  /\ highlightRect.width > 0
  /\ data.scale # Original.scale

\* C19: window_resize on a torn-down view raises no error, leaves width and
\* the stage alone and arms no timer.
C19_ResizeAfterDestroySilent ==
  [][(stage = NULL /\ event'.name = "window_resize") =>
       /\ error' = "none"
       /\ width' = width
       /\ stage' = stage
       /\ timers' = {}]_vars

\* C20 as stated: the stored handle is non-null exactly when a callback is
\* pending.
C20_HandleIffPending == (resizeTimeoutId # 0) <=> (timers # {})

\* C20: a pending callback is always the one the stored handle names; a
\* nonzero-width resize of a live view arms it, every resize first and
\* destroy reset or replace the handle, the callback leaves the handle as
\* it is.
C20_HandleLifecycle ==
  /\ [](timers \subseteq {resizeTimeoutId} /\ 0 \notin timers)
  /\ [][event'.name = "resize_timeout" =>
          resizeTimeoutId' = resizeTimeoutId /\ resizeTimeoutId' \notin timers']_vars
  /\ [][event'.name = "destroy" => resizeTimeoutId' = 0]_vars
  /\ [][event'.name = "window_resize" =>
          IF clientWidth # 0 /\ stage # NULL
            THEN timers' = {resizeTimeoutId'}
            ELSE resizeTimeoutId' = 0 /\ timers' = {}]_vars

\* The callback has fired and the handle still holds its id.
C20_Witness ==
  /\ event.name = "resize_timeout"
  /\ timers = {}
  /\ resizeTimeoutId # 0

====
